---- MODULE Spec2Model ----
(***************************************************************************)
(* SlowQueryLogAnalyzer (src/mysql_slowQueryLogAnalyzer.py): the line by   *)
(* line parser of a MySQL slow-query log, the table extractor, the two     *)
(* aggregates (tables, db_stats) and the three renderers of analyze.       *)
(*                                                                         *)
(* Representation.                                                         *)
(*  - A Python dict whose order is observed (self.tables and its inner     *)
(*    dicts) is a sequence of items in insertion order; a dict whose order *)
(*    is never observed (a query, db_stats) is a function on its keys.     *)
(*  - A SQL text is the sequence of its whitespace separated words; joining*)
(*    two lines with ' ' is the concatenation of their words.  A keyword   *)
(*    of extract_tables matches a whole word.                              *)
(*  - The text str(set) is a sequence of one-character strings, so that    *)
(*    Python's string order can be computed from the code points (Ord).    *)
(*  - A Python set is the sequence of its elements in iteration order.     *)
(*    That order depends on the string hashes of the process (hash_seed),  *)
(*    and, when two elements collide, on the order of insertion.           *)
(*  - Times are integers (multiples of one time unit); the true division   *)
(*    total_time / query_count is the reduced fraction <<num, den>>.       *)
(***************************************************************************)
EXTENDS Integers, Sequences, FiniteSets, TLC

VARIABLES
    pc,             \* position in analyze: "parse", "render", "sort", "json", "done", "crashed"
    hash_seed,      \* the process's string hashing: insertion order -> iteration order of a set
    queries,        \* self.queries
    current_db,     \* self.current_db
    tables,         \* self.tables
    db_stats,       \* self.db_stats
    current_query,  \* parse_log_file's local current_query
    worksheet,      \* the data rows written to the spreadsheet
    sort_data,      \* analyze's local sort_data
    markdown,       \* the data rows of the Markdown file, in file order
    nread,          \* number of lines of the file read so far
    g_lastUse,      \* history: the name given by the last `use` directive read, NoUse before the first
    g_blockSql,     \* history: the current block (since the last `# Time:`) has a SQL line
    g_blockDb,      \* history: g_lastUse when the current block's first SQL line was read
    g_closed        \* history: per closed block that had a SQL line, in order: its g_blockDb

vars == <<pc, hash_seed, queries, current_db, tables, db_stats, current_query,
          worksheet, sort_data, markdown, nread,
          g_lastUse, g_blockSql, g_blockDb, g_closed>>

ghosts == <<g_lastUse, g_blockSql, g_blockDb, g_closed>>
render_vars == <<worksheet, sort_data, markdown>>

-----------------------------------------------------------------------------
(* Bounds and input alphabets *)

MaxLines == 5

\* Python's None.  No `use` line of DbNames produces it.
None == "None"
Unknown == "unknown"
\* History only: no `use` directive has been read yet.
NoUse == "(no use)"

TableNames == {"a", "b"}
DbNames == {"x", "y"}
Timestamps == {"t"}
QueryTimes == {1, 2}

\* The `# Query_time:` lines of the input: one the pattern does not match, one it
\* matches with a number float() rejects (such as 1.2.3), and well-formed ones
\* (lock_time, rows_sent and rows_examined take one value each).
QueryTimeLines ==
    { [matched |-> FALSE, float_ok |-> FALSE, query_time |-> 0],
      [matched |-> TRUE,  float_ok |-> FALSE, query_time |-> 0] }
    \cup { [matched |-> TRUE, float_ok |-> TRUE, query_time |-> t] : t \in QueryTimes }

\* The SQL lines of the input, as words.
SqlLines == { <<"SELECT", "1">>, <<"FROM", "a">>, <<"from", "b">>, <<"JOIN", "b">> }

-----------------------------------------------------------------------------
(* Helpers for dicts and lists *)

EmptyDict == [x \in {} |-> TRUE]

Put(d, k, v) == [x \in (DOMAIN d) \cup {k} |-> IF x = k THEN v ELSE d[x]]

Get(d, k, default) == IF k \in DOMAIN d THEN d[k] ELSE default

Range(s) == { s[i] : i \in 1..Len(s) }

InList(x, s) == \E i \in 1..Len(s) : s[i] = x

\* index of the item with key k in an insertion-ordered dict, 0 when absent
IndexOf(d, k) ==
    IF \E i \in 1..Len(d) : d[i].k = k
    THEN CHOOSE i \in 1..Len(d) : d[i].k = k
    ELSE 0

\* d[k] = v on an insertion-ordered dict: in place when k is present, else appended
PutItem(d, k, v) ==
    IF IndexOf(d, k) = 0
    THEN Append(d, [k |-> k, v |-> v])
    ELSE [d EXCEPT ![IndexOf(d, k)] = [k |-> k, v |-> v]]

Keys(d) == [i \in 1..Len(d) |-> d[i].k]

RECURSIVE GCD(_, _)
GCD(a, b) == IF b = 0 THEN a ELSE GCD(b, a % b)

\* n / d of Python (true division), d > 0, as a reduced fraction
TrueDiv(n, d) == <<n \div GCD(n, d), d \div GCD(n, d)>>

\* the number 0 a statistic starts with, as a fraction
Zero == <<0, 1>>

-----------------------------------------------------------------------------
(* Strings as sequences of characters *)

Ord == [c \in {" ", "'", "(", ")", ",", "a", "b", "e", "l", "s", "t", "{", "}"} |->
          CASE c = " " -> 32 [] c = "'" -> 39 [] c = "(" -> 40 [] c = ")" -> 41
            [] c = "," -> 44 [] c = "a" -> 97 [] c = "b" -> 98 [] c = "e" -> 101
            [] c = "l" -> 108 [] c = "s" -> 115 [] c = "t" -> 116
            [] c = "{" -> 123 [] c = "}" -> 125]

\* s < t for Python strings
RECURSIVE StrLess(_, _)
StrLess(s, t) ==
    IF t = <<>> THEN FALSE
    ELSE IF s = <<>> THEN TRUE
    ELSE IF Ord[Head(s)] # Ord[Head(t)] THEN Ord[Head(s)] < Ord[Head(t)]
    ELSE StrLess(Tail(s), Tail(t))

\* repr of a table name (one character long)
Repr(t) == <<"'", t, "'">>

RECURSIVE JoinRepr(_)
JoinRepr(s) ==
    IF Len(s) = 0 THEN <<>>
    ELSE IF Len(s) = 1 THEN Repr(s[1])
    ELSE Repr(s[1]) \o <<",", " ">> \o JoinRepr(Tail(s))

\* str(table_key) of a set whose iteration order is s
Str(s) ==
    IF s = <<>> THEN <<"s", "e", "t", "(", ")">>
    ELSE <<"{">> \o JoinRepr(s) \o <<"}">>

\* the key "tables"
TablesKey == <<"t", "a", "b", "l", "e", "s">>

-----------------------------------------------------------------------------
(* extract_tables *)

\* re.IGNORECASE on the words of the input
Upper(w) == IF w = "from" THEN "FROM" ELSE w

\* the four patterns, in the order they are applied
Patterns == << <<"FROM">>, <<"JOIN">>, <<"INSERT", "INTO">>, <<"UPDATE">> >>

\* re.findall(pattern, sql) from word i on: the word after each match of the
\* keyword; the search goes on after the captured word
RECURSIVE FindAll(_, _, _)
FindAll(kw, sql, i) ==
    IF i + Len(kw) > Len(sql) THEN <<>>
    ELSE IF \A j \in 1..Len(kw) : Upper(sql[i + j - 1]) = kw[j]
         THEN <<sql[i + Len(kw)]>> \o FindAll(kw, sql, i + Len(kw) + 1)
         ELSE FindAll(kw, sql, i + 1)

\* the names in the order table_names.update inserts them, repeats included
RECURSIVE Found(_, _)
Found(sql, p) ==
    IF p > Len(Patterns) THEN <<>>
    ELSE FindAll(Patterns[p], sql, 1) \o Found(sql, p + 1)

\* the distinct elements of s in the order of their first occurrence
RECURSIVE Dedup(_)
Dedup(s) ==
    IF s = <<>> THEN <<>>
    ELSE LET d == Dedup(SubSeq(s, 1, Len(s) - 1))
             x == s[Len(s)]
         IN IF InList(x, d) THEN d ELSE Append(d, x)

\* The two orders in which two distinct names can be inserted into a set.
InsertionOrders == { p \in TableNames \X TableNames : p[1] # p[2] }

\* What a process's string hashing can make of a set of two names: for each
\* order of insertion, the order of iteration.
HashSeeds == { h \in [InsertionOrders -> InsertionOrders] :
                 \A p \in InsertionOrders : Range(h[p]) = Range(p) }

\* iteration order of the set built by inserting the distinct names ins in order
SetIter(ins) == IF Len(ins) <= 1 THEN ins ELSE hash_seed[ins]

\* the set extract_tables returns, in its iteration order
extract_tables(sql) == SetIter(Dedup(Found(sql, 1)))

-----------------------------------------------------------------------------
(* generateTableInfo *)

NewStat == [query_count |-> 0, max_time |-> 0, total_time |-> 0, avg_time |-> Zero]

\* UpdateStat with avg_time computed before the record's time is added
UpdateStatStaleAvg(tmpMap, query) ==
    LET qt  == Get(query, "query_time", 0)
        cnt == tmpMap.query_count + 1
        mx  == IF qt > tmpMap.max_time THEN query["query_time"] ELSE tmpMap.max_time
    IN [query_count |-> cnt, max_time |-> mx, total_time |-> tmpMap.total_time + qt,
        avg_time |-> TrueDiv(tmpMap.total_time, cnt)]

\* UpdateStat with max_time set to the record's time without the comparison
UpdateStatLastMax(tmpMap, query) ==
    LET qt  == Get(query, "query_time", 0)
        cnt == tmpMap.query_count + 1
        tot == tmpMap.total_time + qt
    IN [query_count |-> cnt, max_time |-> qt, total_time |-> tot,
        avg_time |-> TrueDiv(tot, cnt)]

\* tmpMap after lines 149-153
UpdateStat(tmpMap, query) ==
    LET qt  == Get(query, "query_time", 0)
        cnt == tmpMap.query_count + 1
        mx  == IF qt > tmpMap.max_time THEN query["query_time"] ELSE tmpMap.max_time
        tot == tmpMap.total_time + qt
    IN [query_count |-> cnt, max_time |-> mx, total_time |-> tot,
        avg_time |-> TrueDiv(tot, cnt)]

\* LookupStat that always starts from a new statistic
LookupStatFresh(sqls, sql) == NewStat

\* tmpMap of lines 139-147: the statistic stored under sql, or a new one
LookupStat(sqls, sql) ==
    IF IndexOf(sqls, sql) # 0 THEN sqls[IndexOf(sqls, sql)].v ELSE NewStat

\* self.tables after lines 130-154 of generateTableInfo; tbls is self.tables
\* before.  The inner dict is [db, sqls]: its 'db' item and its items keyed
\* by a SQL text (a text with a table in it is never the text 'db').
UpdateTables(tbls, table_key, query) ==
    LET key  == Str(table_key)
        t1   == IF IndexOf(tbls, key) = 0
                THEN Append(tbls, [k |-> key, v |-> [type |-> "dict", db |-> <<>>, sqls |-> <<>>]])
                ELSE tbls
        i    == IndexOf(t1, key)
        db   == Get(query, "database", Unknown)
        dbl  == IF InList(db, t1[i].v.db) THEN t1[i].v.db ELSE Append(t1[i].v.db, db)
        sql  == Get(query, "sql", <<Unknown>>)
        tmpMap == LookupStat(t1[i].v.sqls, sql)
    IN [t1 EXCEPT ![i].v = [type |-> "dict", db |-> dbl,
                            sqls |-> PutItem(t1[i].v.sqls, sql, UpdateStat(tmpMap, query))]]

\* generateTableInfo without the return on an empty table set
generateTableInfoNoGuard(tbls, table_key, query) == UpdateTables(tbls, table_key, query)

\* self.tables after generateTableInfo(table_key, query)
generateTableInfo(tbls, table_key, query) ==
    IF table_key = <<>> THEN tbls
    ELSE UpdateTables(tbls, table_key, query)

-----------------------------------------------------------------------------
(* _process_query *)

NewDbStat == [query_count |-> 0, queries |-> <<>>, tables |-> EmptyDict]

\* self.db_stats[db_name]['tables'][table] += 1 for each table of the set
CountTables(counts, tbl) ==
    [t \in (DOMAIN counts) \cup Range(tbl) |->
        Get(counts, t, 0) + (IF t \in Range(tbl) THEN 1 ELSE 0)]

\* self.db_stats after lines 116-125 for a query that has a sql
UpdateDbStats(stats, query) ==
    LET tbl     == extract_tables(query["sql"])
        q       == Put(query, "tables", tbl)
        db_name == Get(query, "database", Unknown)
        old     == Get(stats, db_name, NewDbStat)
    IN Put(stats, db_name,
           [query_count |-> old.query_count + 1,
            queries     |-> Append(old.queries, q),
            tables      |-> CountTables(old.tables, tbl)])

\* _process_query(query): the two aggregates after the call
process_tables(query) ==
    IF "sql" \notin DOMAIN query THEN tables
    ELSE generateTableInfo(tables, extract_tables(query["sql"]), query)

process_db_stats(query) ==
    IF "sql" \notin DOMAIN query THEN db_stats
    ELSE UpdateDbStats(db_stats, query)

_process_query(query) ==
    /\ tables' = process_tables(query)
    /\ db_stats' = process_db_stats(query)

-----------------------------------------------------------------------------
(* parse_log_file: one step per line of the file *)

Init ==
    /\ pc = "parse"
    /\ hash_seed \in HashSeeds
    /\ queries = <<>>
    /\ current_db = None
    /\ tables = <<>>
    /\ db_stats = EmptyDict
    /\ current_query = EmptyDict
    /\ worksheet = <<>>
    /\ sort_data = <<>>
    /\ markdown = <<>>
    /\ nread = 0
    /\ g_lastUse = NoUse
    /\ g_blockSql = FALSE
    /\ g_blockDb = NoUse
    /\ g_closed = <<>>

\* `if current_query: self._process_query(current_query)`
Flush ==
    IF DOMAIN current_query # {}
    THEN _process_query(current_query)
    ELSE UNCHANGED <<tables, db_stats>>

\* a blank line or a line starting with '--' (lines 40-41)
SkipLine == UNCHANGED <<pc, current_db, tables, db_stats, current_query>>

\* TimeLine that also resets the current database
TimeLineResetsDb(ts) ==
    /\ Flush
    /\ current_query' = Put(EmptyDict, "timestamp", ts)
    /\ current_db' = None
    /\ UNCHANGED pc

\* a `# Time:` line (lines 44-47)
TimeLine(ts) ==
    /\ Flush
    /\ current_query' = Put(EmptyDict, "timestamp", ts)
    /\ UNCHANGED <<pc, current_db>>

\* a `# User@Host:` line (lines 50-54)
UserHostLine(matched) ==
    /\ current_query' = IF matched
                        THEN Put(Put(current_query, "user", "root"), "host", "h")
                        ELSE current_query
    /\ UNCHANGED <<pc, current_db, tables, db_stats>>

\* a `# Query_time:` line (lines 57-65); float() raises on a number such as 1.2.3
QueryTimeLine(l) ==
    /\ pc' = IF l.matched /\ ~l.float_ok THEN "crashed" ELSE pc
    /\ current_query' =
         IF l.matched /\ l.float_ok
         THEN Put(Put(Put(Put(current_query, "query_time", l.query_time),
                          "lock_time", 0), "rows_sent", 1), "rows_examined", 1)
         ELSE current_query
    /\ UNCHANGED <<current_db, tables, db_stats>>

\* a `use <name>` line (lines 68-70)
UseLine(name) ==
    /\ current_db' = name
    /\ UNCHANGED <<pc, tables, db_stats, current_query>>

\* a line starting with '#' or with `set timestamp` (the else of line 73)
IgnoredLine == UNCHANGED <<pc, current_db, tables, db_stats, current_query>>

\* a SQL line (lines 73-78)
SqlLine(line) ==
    /\ current_query' =
         IF "sql" \notin DOMAIN current_query
         THEN Put(Put(current_query, "sql", line), "database", current_db)
         ELSE Put(current_query, "sql", current_query["sql"] \o line)
    /\ UNCHANGED <<pc, current_db, tables, db_stats>>

\* EndOfFileFlush that leaves the last record unprocessed
EndOfFileNoFlush ==
    /\ pc' = "render"
    /\ UNCHANGED <<current_db, current_query, tables, db_stats>>

\* the end of the file (lines 80-82)
EndOfFileFlush ==
    /\ Flush
    /\ pc' = "render"
    /\ UNCHANGED <<current_db, current_query>>

CanRead == pc = "parse" /\ nread < MaxLines

\* history of a line that neither closes a block nor is a `use` or a SQL line
SameHistory == UNCHANGED ghosts

\* history of a line that closes the current block
CloseBlock ==
    /\ g_closed' = IF g_blockSql THEN Append(g_closed, g_blockDb) ELSE g_closed
    /\ g_blockSql' = FALSE
    /\ g_blockDb' = NoUse
    /\ UNCHANGED g_lastUse

ReadSkip ==
    /\ CanRead /\ nread' = nread + 1
    /\ SkipLine
    /\ SameHistory
    /\ UNCHANGED <<hash_seed, queries, render_vars>>

ReadTime ==
    /\ CanRead /\ nread' = nread + 1
    /\ \E ts \in Timestamps : TimeLine(ts)
    /\ CloseBlock
    /\ UNCHANGED <<hash_seed, queries, render_vars>>

ReadUserHost ==
    /\ CanRead /\ nread' = nread + 1
    /\ \E matched \in BOOLEAN : UserHostLine(matched)
    /\ SameHistory
    /\ UNCHANGED <<hash_seed, queries, render_vars>>

ReadQueryTime ==
    /\ CanRead /\ nread' = nread + 1
    /\ \E l \in QueryTimeLines : QueryTimeLine(l)
    /\ SameHistory
    /\ UNCHANGED <<hash_seed, queries, render_vars>>

ReadUse ==
    /\ CanRead /\ nread' = nread + 1
    /\ \E name \in DbNames :
         /\ UseLine(name)
         /\ g_lastUse' = name
    /\ UNCHANGED <<g_blockSql, g_blockDb, g_closed>>
    /\ UNCHANGED <<hash_seed, queries, render_vars>>

ReadIgnored ==
    /\ CanRead /\ nread' = nread + 1
    /\ IgnoredLine
    /\ SameHistory
    /\ UNCHANGED <<hash_seed, queries, render_vars>>

ReadSql ==
    /\ CanRead /\ nread' = nread + 1
    /\ \E line \in SqlLines : SqlLine(line)
    /\ g_blockSql' = TRUE
    /\ g_blockDb' = IF g_blockSql THEN g_blockDb ELSE g_lastUse
    /\ UNCHANGED <<g_lastUse, g_closed>>
    /\ UNCHANGED <<hash_seed, queries, render_vars>>

EndOfFile ==
    /\ pc = "parse"
    /\ EndOfFileFlush
    /\ CloseBlock
    /\ UNCHANGED <<hash_seed, queries, render_vars, nread>>

Parse ==
    \/ ReadSkip \/ ReadTime \/ ReadUserHost \/ ReadQueryTime
    \/ ReadUse \/ ReadIgnored \/ ReadSql \/ EndOfFile

-----------------------------------------------------------------------------
(* analyze, after parse_log_file: the three reports *)

\* the data rows of one item (k, v) of self.tables, in the order of v.items();
\* each is <<spreadsheet row, sort_data entry>> (lines 178-194).  The numbers
\* of the Markdown row are kept as they are (the text has them to 2 decimals).
ItemRows(k, v) ==
    [j \in 1..Len(v.sqls) |->
        LET k1   == v.sqls[j].k
            v1   == v.sqls[j].v
            tmp1 == IF InList("SQL_NO_CACHE", k1) THEN "backup" ELSE "-------"
        IN << <<k, v1.query_count, v1.avg_time, v1.max_time, tmp1, v.db, k1>>,
              << v1.query_count, k,
                 [k |-> k, query_count |-> v1.query_count, avg_time |-> v1.avg_time,
                  max_time |-> v1.max_time, sql |-> k1, db |-> v.db, note |-> tmp1] >> >>]

RECURSIVE AllRows(_)
AllRows(tbls) ==
    IF tbls = <<>> THEN <<>>
    ELSE ItemRows(Head(tbls).k, Head(tbls).v) \o AllRows(Tail(tbls))

\* The loop of lines 177-194 raises when a value of self.tables is a list
\* (it has no items()) and when a db list holds None (' '.join needs strings).
RenderRaises(tbls) ==
    \E i \in 1..Len(tbls) :
        \/ tbls[i].v.type = "list"
        \/ tbls[i].v.type = "dict" /\ Len(tbls[i].v.sqls) > 0 /\ InList(None, tbls[i].v.db)

\* lines 162-198: the spreadsheet rows and sort_data, in insertion order
RenderRows ==
    /\ pc = "render"
    /\ IF RenderRaises(tables)
       THEN /\ pc' = "crashed"
            /\ UNCHANGED <<worksheet, sort_data>>
       ELSE /\ pc' = "sort"
            /\ worksheet' = [i \in 1..Len(AllRows(tables)) |-> AllRows(tables)[i][1]]
            /\ sort_data' = [i \in 1..Len(AllRows(tables)) |-> AllRows(tables)[i][2]]
    /\ UNCHANGED <<hash_seed, queries, current_db, tables, db_stats, current_query,
                   markdown, nread, ghosts>>

\* KeyLess of a sort by the count alone
KeyLessCountOnly(x, y) == x[1] < y[1]

\* (x[0], x[1]) < (y[0], y[1]) of Python: the count, then the label as a string
KeyLess(x, y) == x[1] < y[1] \/ (x[1] = y[1] /\ StrLess(x[2], y[2]))

\* x put into the descending list s behind every element that is not less than it
RECURSIVE InsertDesc(_, _)
InsertDesc(s, x) ==
    IF s = <<>> THEN <<x>>
    ELSE IF KeyLess(Head(s), x) THEN <<x>> \o s
    ELSE <<Head(s)>> \o InsertDesc(Tail(s), x)

\* sorted(s, key=lambda x: (x[0], x[1]), reverse=True): descending and stable
RECURSIVE sorted(_)
sorted(s) ==
    IF s = <<>> THEN <<>>
    ELSE InsertDesc(sorted(SubSeq(s, 1, Len(s) - 1)), s[Len(s)])

\* lines 200-205: the Markdown rows
SortMarkdown ==
    /\ pc = "sort"
    /\ markdown' = [i \in 1..Len(sort_data) |-> sorted(sort_data)[i][3]]
    /\ pc' = "json"
    /\ UNCHANGED <<hash_seed, queries, current_db, tables, db_stats, current_query,
                   worksheet, sort_data, nread, ghosts>>

\* line 210: self.tables["tables"] = list(self.tables.keys())
InjectKeyList(tbls) == PutItem(tbls, TablesKey, [type |-> "list", items |-> Keys(tbls)])

\* DumpJson run before the rows are rendered
DumpJsonEarly ==
    /\ pc = "render"
    /\ IndexOf(tables, TablesKey) = 0
    /\ tables' = InjectKeyList(tables)
    /\ pc' = pc
    /\ UNCHANGED <<hash_seed, queries, current_db, db_stats, current_query,
                   render_vars, nread, ghosts>>

\* lines 208-211: the document written is self.tables after the injection
DumpJson ==
    /\ pc = "json"
    /\ tables' = InjectKeyList(tables)
    /\ pc' = "done"
    /\ UNCHANGED <<hash_seed, queries, current_db, db_stats, current_query,
                   render_vars, nread, ghosts>>

Next == Parse \/ RenderRows \/ SortMarkdown \/ DumpJson

Spec == Init /\ [][Next]_vars

-----------------------------------------------------------------------------
(* What the properties speak of *)

\* the finalized records: <<database key, index in that database's query list>>
Recs == { p \in (DOMAIN db_stats) \X (0..MaxLines + 1) :
            p[2] \in 1..Len(db_stats[p[1]].queries) }
Rec(p) == db_stats[p[1]].queries[p[2]]

\* the (table-set key, SQL text) entries: <<index of the key, index of the text>>
Entries == { e \in (1..Len(tables)) \X (1..MaxLines + 1) :
               /\ tables[e[1]].v.type = "dict"
               /\ e[2] \in 1..Len(tables[e[1]].v.sqls) }
EntryKey(e) == tables[e[1]].k
EntrySql(e) == tables[e[1]].v.sqls[e[2]].k
EntryStat(e) == tables[e[1]].v.sqls[e[2]].v

\* the finalized records aggregated into entry e
RecsOf(e) == { p \in Recs : /\ Rec(p)["tables"] # <<>>
                            /\ Str(Rec(p)["tables"]) = EntryKey(e)
                            /\ Rec(p)["sql"] = EntrySql(e) }

QueryTimeOf(p) == IF "query_time" \in DOMAIN Rec(p) THEN Rec(p)["query_time"] ELSE 0

RECURSIVE SumTimes(_)
SumTimes(R) ==
    IF R = {} THEN 0
    ELSE LET p == CHOOSE x \in R : TRUE IN QueryTimeOf(p) + SumTimes(R \ {p})

Count(x, s) == Cardinality({ i \in 1..Len(s) : s[i] = x })

RECURSIVE SumCounts(_)
SumCounts(D) ==
    IF D = {} THEN 0
    ELSE LET d == CHOOSE x \in D : TRUE IN db_stats[d].query_count + SumCounts(D \ {d})

Parsed == pc \in {"render", "sort", "json", "done"}

-----------------------------------------------------------------------------
(* Properties *)

\* C1: every (table-set key, SQL text) entry has query_count >= 1 and
\* avg_time = total_time / query_count (as exact fractions:
\* avg_time * query_count = total_time).
C1_AvgTime ==
    \A e \in Entries :
        /\ EntryStat(e).query_count >= 1
        /\ EntryStat(e).avg_time[2] >= 1
        /\ EntryStat(e).avg_time[1] * EntryStat(e).query_count
             = EntryStat(e).total_time * EntryStat(e).avg_time[2]

\* C1 witness: an entry of two records whose mean is not a whole number
C1_Witness ==
    \E e \in Entries : EntryStat(e).query_count = 2 /\ EntryStat(e).total_time = 3

\* C2 (as claimed): two finalized records share their table-set key exactly
\* when their table sets are equal as unordered sets.
C2_SameSetSameKey ==
    \A p1, p2 \in Recs :
        (Rec(p1)["tables"] # <<>> /\ Rec(p2)["tables"] # <<>>) =>
            ( (Range(Rec(p1)["tables"]) = Range(Rec(p2)["tables"]))
                <=> (Str(Rec(p1)["tables"]) = Str(Rec(p2)["tables"])) )

\* C3 (as claimed): the records whose first SQL line was read before any `use`
\* directive are counted under "unknown" in db_stats, and "unknown" is in the
\* db list of the table-set key of each of them that has tables.
C3_UnknownSentinel ==
    Count(NoUse, g_closed) > 0 =>
        /\ Unknown \in DOMAIN db_stats
        /\ db_stats[Unknown].query_count = Count(NoUse, g_closed)
        /\ \A p \in Recs :
             (p[1] \notin DbNames /\ Rec(p)["tables"] # <<>>) =>
                 \E i \in 1..Len(tables) :
                     /\ tables[i].k = Str(Rec(p)["tables"])
                     /\ InList(Unknown, tables[i].v.db)

\* C4: a record's database is the name of the last `use` directive read before
\* its first SQL line, whatever `# Time:` markers and later `use` directives
\* follow; a `use` directive neither finalizes a record nor starts one (the
\* records counted under a name are exactly the closed blocks whose first SQL
\* line was read under that name).
C4_DatabaseOfRecord ==
    /\ (pc = "parse" /\ g_blockSql) =>
          /\ "sql" \in DOMAIN current_query
          /\ (g_blockDb \in DbNames => current_query["database"] = g_blockDb)
    /\ (pc = "parse" /\ ~g_blockSql) => "sql" \notin DOMAIN current_query
    /\ \A name \in DbNames :
          /\ Count(name, g_closed) =
               (IF name \in DOMAIN db_stats THEN Len(db_stats[name].queries) ELSE 0)
          /\ name \in DOMAIN db_stats =>
               \A i \in 1..Len(db_stats[name].queries) :
                   db_stats[name].queries[i]["database"] = name

\* C4 witness: the first record keeps x although `use y` was read after its
\* first SQL line, and the next record, after a `# Time:`, has y
C4_Witness ==
    /\ Len(g_closed) = 1 /\ g_closed[1] = "x"
    /\ g_blockSql /\ g_blockDb = "y"
    /\ current_query["database"] = "y"
    /\ "x" \in DOMAIN db_stats

\* C5: every block with a SQL line is handed on exactly once, at the next
\* `# Time:` or at the end of the file, and a block without one changes no
\* aggregate: the query_count of db_stats add up to the number of closed blocks
\* with a SQL line, and after parse_log_file to the number of all such blocks.
C5_EachRecordOnce ==
    /\ SumCounts(DOMAIN db_stats) = Len(g_closed)
    /\ Cardinality(Recs) = SumCounts(DOMAIN db_stats)
    /\ Parsed => ~g_blockSql

\* C5 witness: two records, the first closed by `# Time:`, the second by the
\* end of the file (three lines: SQL, `# Time:`, SQL)
C5_Witness == pc = "render" /\ Len(g_closed) = 2 /\ nread = 3

\* C6: the entry of a (table set, SQL text) counts the finalized records with
\* that table set and text and sums their query_time, and there is one entry
\* per pair.
C6_Collapse ==
    /\ \A e \in Entries :
          /\ EntryStat(e).query_count = Cardinality(RecsOf(e))
          /\ EntryStat(e).total_time = SumTimes(RecsOf(e))
    /\ \A e1, e2 \in Entries :
          (EntrySql(e1) = EntrySql(e2)) => e1 = e2
    /\ \A p \in Recs : Rec(p)["tables"] # <<>> => \E e \in Entries : p \in RecsOf(e)

\* C6 witness: two records with different times in one entry
C6_Witness ==
    \E e \in Entries :
        /\ EntryStat(e).query_count = 2
        /\ \E p1, p2 \in RecsOf(e) : QueryTimeOf(p1) # QueryTimeOf(p2)

\* C7: finalizing a record with an empty table set leaves self.tables as it
\* is, adds one to its database's query_count and appends it to that
\* database's query list.
C7_EmptyTableSet ==
    [][ ( /\ pc = "parse"
          /\ "sql" \in DOMAIN current_query
          /\ extract_tables(current_query["sql"]) = <<>>
          /\ Len(g_closed') = Len(g_closed) + 1 )
        => LET db  == current_query["database"]
               old == IF db \in DOMAIN db_stats THEN db_stats[db] ELSE NewDbStat
           IN /\ tables' = tables
              /\ db \in DOMAIN db_stats'
              /\ db_stats'[db].query_count = old.query_count + 1
              /\ db_stats'[db].queries = Append(old.queries, Put(current_query, "tables", <<>>))
              /\ \A d \in DOMAIN db_stats' : d # db =>
                    d \in DOMAIN db_stats /\ db_stats'[d] = db_stats[d] ]_vars

\* C7 witness: a record without tables has been finalized after one with tables
C7_Witness ==
    /\ Len(tables) = 1
    /\ \E p \in Recs : Rec(p)["tables"] = <<>> /\ p[2] = 2

\* C8: the key "tables" is in self.tables only once the spreadsheet rows and
\* the Markdown rows have been produced; it is no row of either; the list
\* under it holds the table-set keys and not "tables".
C8_InjectAfterRender ==
    /\ IndexOf(tables, TablesKey) # 0 => pc = "done"
    /\ \A i \in 1..Len(worksheet) : worksheet[i][1] # TablesKey
    /\ \A i \in 1..Len(markdown) : markdown[i].k # TablesKey
    /\ pc = "done" =>
          LET i == IndexOf(tables, TablesKey)
          IN /\ i = Len(tables)
             /\ tables[i].v.type = "list"
             /\ tables[i].v.items = Keys(SubSeq(tables, 1, i - 1))
             /\ ~InList(TablesKey, tables[i].v.items)
             /\ Len(worksheet) = Cardinality(Entries)
             /\ Len(markdown) = Cardinality(Entries)

\* C8 witness: the run is over with two table-set keys in the reports
C8_Witness ==
    /\ pc = "done"
    /\ Len(tables) = 3
    /\ Len(worksheet) >= 2

\* the pair (query_count, label) of Markdown row r is at least that of row q
RowGE(r, q) ==
    \/ r.query_count > q.query_count
    \/ r.query_count = q.query_count /\ ~StrLess(r.k, q.k)

RECURSIVE MaxTime(_)
MaxTime(R) ==
    IF R = {} THEN 0
    ELSE LET p == CHOOSE x \in R : TRUE
             m == MaxTime(R \ {p})
         IN IF QueryTimeOf(p) > m THEN QueryTimeOf(p) ELSE m

\* max_time of every entry is the largest query_time of its records (0 for a
\* record without one)
MaxTimeIsLargest == \A e \in Entries : EntryStat(e).max_time = MaxTime(RecsOf(e))

\* max_time of an entry does not decrease
MaxTimeGrows ==
    \A i \in 1..Len(tables) :
        (tables[i].v.type = "dict" /\ i <= Len(tables') /\ tables'[i].v.type = "dict") =>
            \A j \in 1..Len(tables[i].v.sqls) :
                /\ j <= Len(tables'[i].v.sqls)
                /\ tables'[i].v.sqls[j].k = tables[i].v.sqls[j].k
                /\ tables'[i].v.sqls[j].v.max_time >= tables[i].v.sqls[j].v.max_time

\* C10: max_time of every entry is the largest query_time among its records,
\* a record without a query_time counting as 0, and it never decreases.
C10_MaxTime == []MaxTimeIsLargest /\ [][MaxTimeGrows]_vars

\* C10 witness: an entry of a record with query_time 2 and a later one without
C10_Witness ==
    \E e \in Entries :
        /\ EntryStat(e).max_time = 2
        /\ \E p \in RecsOf(e) : "query_time" \notin DOMAIN Rec(p)

====
